---- MODULE Spec2Model ----
(***************************************************************************)
(* mdserve: the in-memory index of tracked markdown files (MarkdownState), *)
(* the watcher event loop, the delayed rescans and the request handlers of *)
(* src/src/app.rs, together with the filesystem they observe.              *)
(***************************************************************************)
EXTENDS Naturals, Integers, Sequences, FiniteSets, Bags, TLC

\* ------------------------------------------------------------------ bounds
\* Number of filesystem operations the environment performs (also the clock
\* that stamps modification times).
MaxFsOps == 2
\* Number of delayed rescans that may be armed and not yet finished.
MaxRescans == 2

\* ------------------------------------------------------------------ paths
\* A path below the root: its directory components, file stem and extension.
PA == [dir |-> <<>>, stem |-> "a", ext |-> "md"]
PB == [dir |-> <<>>, stem |-> "b", ext |-> "markdown"]
PC == [dir |-> <<"a">>, stem |-> "c", ext |-> "MD"]
PT == [dir |-> <<>>, stem |-> "a", ext |-> "tmp"]
Paths == {PA, PB, PC, PT}

\* Directory mode on trees with nested folders: a.md, a/b.md, a/b/c.md and
\* a/b/a.md, and a root file whose name holds a backslash, b\c.md.
TB == [dir |-> <<"a">>, stem |-> "b", ext |-> "md"]
TC == [dir |-> <<"a", "b">>, stem |-> "c", ext |-> "md"]
TD == [dir |-> <<"a", "b">>, stem |-> "a", ext |-> "md"]
TW == [dir |-> <<>>, stem |-> "b\\c", ext |-> "md"]
TreePaths == {PA, TB, TC, TD, TW}

\* File contents the environment writes, and the content of the one file
\* outside the root that a symlink may point to.
Contents == {"c1", "c2"}
Secret == "secret"
\* Bytes that are not valid UTF-8: fs::read_to_string fails on such a file.
NotUtf8 == "not-utf8"

Absent == [kind |-> "absent"]
File(c, t) == [kind |-> "file", content |-> c, mtime |-> t]
\* A symbolic link whose target is a regular file outside the root; content
\* and mtime are those of the target (metadata and reads follow the link).
Link(t) == [kind |-> "link", content |-> Secret, mtime |-> t]

VARIABLES
  mode,           \* is_directory_mode: "dir" or "single"
  disk,           \* the filesystem under the root: Paths -> entry
  clock,          \* filesystem operations performed so far
  tracked,        \* MarkdownState.tracked_files: key -> TrackedFile
  queue,          \* mpsc channel from the watcher callback to the event loop
  sleeping,       \* delayed rescan tasks spawned and still asleep
  snaps,          \* bag of (old_files, old_hashes) snapshots of rescan tasks
                  \* between their two lock acquisitions
  sinceChange,    \* messages broadcast on change_tx since the last fs change
  lastFs,         \* the last filesystem operation
  backend,        \* which notify backend RecommendedWatcher is
  rescannedSince, \* whether a rescan ran rescan_directory since the last fs change
  router,         \* new_router: whether it was called, with which files, and its result
  lastPass,       \* under PassSpec, the inputs and outcome of the pass made
  subs,           \* the websocket connections: subscriber -> its two tasks' state
  guard,          \* the tasks around the index mutex, where its critical
                  \* sections are taken step by step, and what they emitted
                  \* (under MutexSpec: who waits for the mutex and who holds it)
  callback        \* raw events the watcher callback has not handed over yet

vars == <<mode, disk, clock, tracked, queue, sleeping, snaps, sinceChange,
          lastFs, backend, rescannedSince, router, lastPass, subs, guard,
          callback>>

\* ------------------------------------------------------------------ helpers
\* str::to_ascii_lowercase on the extensions in use.
Lower(ext) ==
  CASE ext = "MD" -> "md"
    [] ext = "MARKDOWN" -> "markdown"
    [] OTHER -> ext

\* ext.eq_ignore_ascii_case("md") || ext.eq_ignore_ascii_case("markdown")
is_markdown_file(p) == Lower(p.ext) \in {"md", "markdown"}

\* serve_file's test on the request path: ends_with(".md") || ends_with(".markdown")
ends_with_md(p) == p.ext \in {"md", "markdown"}

\* md5::compute(content)
Md5(c) == <<"md5", c>>

\* MarkdownState::markdown_to_html(content); it never fails.
markdown_to_html(c) == <<"html", c>>

Exists(d, p) == d[p].kind # "absent"

\* Path::is_file follows symbolic links.
is_file(d, p) == d[p].kind \in {"file", "link"}

Err == [err |-> TRUE]
Outside == [outside |-> TRUE]

\* Path::canonicalize: fails for a missing path, resolves symbolic links.
canonicalize(d, p) ==
  CASE d[p].kind = "absent" -> Err
    [] d[p].kind = "link" -> Outside
    [] OTHER -> p

\* calculate_relative_path: canonicalize, then strip_prefix(base_dir).
calculate_relative_path(d, p) ==
  LET c == canonicalize(d, p)
  IN IF c = Err \/ c = Outside THEN Err ELSE c

Range(f) == {f[i] : i \in DOMAIN f}

\* The bytes of the names in use.
Bytes(s) ==
  CASE s = "a" -> <<97>>
    [] s = "b" -> <<98>>
    [] s = "c" -> <<99>>
    [] s = "md" -> <<109, 100>>
    [] s = "MD" -> <<77, 68>>
    [] s = "markdown" -> <<109, 97, 114, 107, 100, 111, 119, 110>>
    [] s = "tmp" -> <<116, 109, 112>>
    [] s = "b\\c" -> <<98, 92, 99>>

\* The components of a path below the root: its folders, then the file name.
file_name(p) == Bytes(p.stem) \o <<46>> \o Bytes(p.ext)
components(p) ==
  [i \in 1..(Len(p.dir) + 1) |->
     IF i <= Len(p.dir) THEN Bytes(p.dir[i]) ELSE file_name(p)]

\* to_string_lossy of the relative path: the components joined by '/'.
RECURSIVE join(_)
join(cs) == IF Len(cs) = 1 THEN cs[1] ELSE cs[1] \o <<47>> \o join(Tail(cs))
to_string_lossy(p) == join(components(p))

\* Ord for byte strings (str, OsStr): lexicographic, a proper prefix first.
BytesLess(x, y) ==
  \E i \in 1..Len(y) :
    /\ \A j \in 1..(i - 1) : j <= Len(x) /\ x[j] = y[j]
    /\ Len(x) = i - 1 \/ (Len(x) >= i /\ x[i] < y[i])

\* Ord for Path: lexicographic over the components, each compared as bytes.
PathLess(p, q) ==
  LET x == components(p)
      y == components(q)
  IN \E i \in 1..Len(y) :
       /\ \A j \in 1..(i - 1) : j <= Len(x) /\ x[j] = y[j]
       /\ Len(x) = i - 1 \/ (Len(x) >= i /\ BytesLess(x[i], y[i]))

\* Ord for the relative path strings (the keys of tracked_files).
KeyLess(p, q) == BytesLess(to_string_lossy(p), to_string_lossy(q))

\* Vec::sort of a collection without duplicates under a strict total order,
\* the order given as the set of the pairs <<q, p>> with q before p.
sort(S, less) ==
  [i \in 1..Cardinality(S) |->
     CHOOSE p \in S : Cardinality({q \in S : <<q, p>> \in less}) = i - 1]

\* The pairs of PathBuf's Ord and of String's Ord over a set of paths.
PathOrder(S) == {w \in S \X S : PathLess(w[1], w[2])}
KeyOrder(S) == {w \in S \X S : KeyLess(w[1], w[2])}

\* scan_markdown_files_recursive: the paths pushed during the descent, those
\* for which is_file (which follows symbolic links) and is_markdown_file hold.
scan_markdown_files_recursive(d) ==
  {p \in DOMAIN d : is_file(d, p) /\ is_markdown_file(p)}

\* A directory below the root, and the same directory when fs::read_dir
\* cannot open it (no read permission).
Dir == [kind |-> "dir"]
UnreadableDir == [kind |-> "unreadable-dir"]

\* The descent returns the error of fs::read_dir on a subdirectory, and of
\* every entry, with `?`: one directory that cannot be read fails the scan.
scan_fails(d) == \E p \in DOMAIN d : d[p] = UnreadableDir

\* scan_markdown_files: the descent, then md_files.sort().
\* Sorting a set of paths selects its members from the sorted universe.
PathsInOrder == sort(Paths \cup TreePaths, PathOrder(Paths \cup TreePaths))
scan_markdown_files(d) ==
  LET md_files == scan_markdown_files_recursive(d)
  IN SelectSeq(PathsInOrder, LAMBDA p : p \in md_files)

\* fs::read_to_string: fails on bytes that are not valid UTF-8.
read_to_string(d, p) ==
  IF ~Exists(d, p) \/ d[p].content = NotUtf8
  THEN [ok |-> FALSE, content |-> NotUtf8]
  ELSE [ok |-> TRUE, content |-> d[p].content]

TrackedFile(d, p) ==
  [path |-> p,
   last_modified |-> d[p].mtime,
   html |-> markdown_to_html(d[p].content),
   content_hash |-> Md5(d[p].content)]

Keys(t) == DOMAIN t

\* MarkdownState::new over the given file paths that skips a file it cannot
\* stat, read or resolve.
MarkdownState_new_best_effort(d, files) ==
  LET good == {p \in files : /\ read_to_string(d, p).ok
                              /\ calculate_relative_path(d, p) # Err}
  IN [ok |-> TRUE, t |-> [k \in good |-> TrackedFile(d, k)]]

\* MarkdownState::new over the given file paths: [ok, t]; every metadata,
\* read and calculate_relative_path failure is returned with `?`.
MarkdownState_new(d, files) ==
  IF \A p \in files : /\ Exists(d, p)
                       /\ read_to_string(d, p).ok
                       /\ calculate_relative_path(d, p) # Err
  THEN [ok |-> TRUE, t |-> [k \in files |-> TrackedFile(d, k)]]
  ELSE [ok |-> FALSE, t |-> <<>>]

Reload == [type |-> "Reload"]
FileRenamed(o, n) == [type |-> "FileRenamed", old_name |-> o, new_name |-> n]
FileRemoved(n) == [type |-> "FileRemoved", name |-> n]

\* ------------------------------------------------------------------ index
\* refresh_file that rereads whenever the on-disk modification time differs
\* from the stored one.
refresh_file_on_any_difference(t, d, k) ==
  IF k \notin Keys(t) THEN [ok |-> TRUE, t |-> t]
  ELSE IF ~Exists(d, t[k].path) THEN [ok |-> FALSE, t |-> t]
  ELSE IF d[t[k].path].mtime # t[k].last_modified
       THEN IF ~read_to_string(d, t[k].path).ok THEN [ok |-> FALSE, t |-> t]
            ELSE [ok |-> TRUE,
                  t |-> [t EXCEPT ![k].html = markdown_to_html(d[t[k].path].content),
                                  ![k].last_modified = d[t[k].path].mtime]]
       ELSE [ok |-> TRUE, t |-> t]

\* refresh_file that rereads the content whatever the modification times.
refresh_file_always(t, d, k) ==
  IF k \notin Keys(t) THEN [ok |-> TRUE, t |-> t]
  ELSE IF ~Exists(d, t[k].path) THEN [ok |-> FALSE, t |-> t]
  ELSE IF ~read_to_string(d, t[k].path).ok THEN [ok |-> FALSE, t |-> t]
  ELSE [ok |-> TRUE,
        t |-> [t EXCEPT ![k].html = markdown_to_html(d[t[k].path].content),
                        ![k].last_modified = d[t[k].path].mtime]]

\* MarkdownState::refresh_file: [ok, t] where t is tracked_files afterwards.
refresh_file(t, d, k) ==
  IF k \notin Keys(t) THEN [ok |-> TRUE, t |-> t]
  ELSE IF ~Exists(d, t[k].path) THEN [ok |-> FALSE, t |-> t]
  ELSE IF d[t[k].path].mtime > t[k].last_modified
       THEN IF ~read_to_string(d, t[k].path).ok THEN [ok |-> FALSE, t |-> t]
            ELSE [ok |-> TRUE,
                  t |-> [t EXCEPT ![k].html = markdown_to_html(d[t[k].path].content),
                                  ![k].last_modified = d[t[k].path].mtime]]
       ELSE [ok |-> TRUE, t |-> t]

\* add_tracked_file without the contains_key test: the entry is built anew.
add_tracked_file_overwriting(t, d, p) ==
  LET rel == calculate_relative_path(d, p)
  IN IF rel = Err \/ ~read_to_string(d, p).ok THEN [ok |-> FALSE, t |-> t]
     ELSE [ok |-> TRUE,
           t |-> [k \in Keys(t) \cup {rel} |->
                    IF k = rel THEN TrackedFile(d, p) ELSE t[k]]]

\* MarkdownState::add_tracked_file
add_tracked_file(t, d, p) ==
  LET rel == calculate_relative_path(d, p)
  IN IF rel = Err THEN [ok |-> FALSE, t |-> t]
     ELSE IF rel \in Keys(t) THEN [ok |-> TRUE, t |-> t]
     ELSE IF ~read_to_string(d, p).ok THEN [ok |-> FALSE, t |-> t]
     ELSE [ok |-> TRUE,
           t |-> [k \in Keys(t) \cup {rel} |->
                    IF k = rel THEN TrackedFile(d, p) ELSE t[k]]]

\* rescan_directory that does not look at the directory.
rescan_directory_unchanged(t, d, m) == [changed |-> FALSE, t |-> t]

\* rescan_directory that builds anew the entry of every readable file it scans,
\* the files already tracked included.
rescan_directory_rebuilding(t, d, m) ==
  IF m # "dir" \/ scan_fails(d) THEN [changed |-> FALSE, t |-> t]
  ELSE
    LET inside == {p \in Range(scan_markdown_files(d)) :
                     calculate_relative_path(d, p) # Err}
        kept == Keys(t) \cap inside
        added == {k \in inside \ Keys(t) : read_to_string(d, k).ok}
    IN IF inside = Keys(t) THEN [changed |-> FALSE, t |-> t]
       ELSE [changed |-> TRUE,
             t |-> [k \in kept \cup added |->
                      IF read_to_string(d, k).ok THEN TrackedFile(d, k) ELSE t[k]]]

\* rescan_directory that takes a failed scan for an empty directory.
rescan_directory_empty_on_error(t, d, m) ==
  IF m # "dir" THEN [changed |-> FALSE, t |-> t]
  ELSE IF scan_fails(d) THEN [changed |-> Keys(t) # {}, t |-> <<>>]
  ELSE
    LET inside == {p \in Range(scan_markdown_files(d)) :
                     calculate_relative_path(d, p) # Err}
        kept == Keys(t) \cap inside
        added == {k \in inside \ Keys(t) : read_to_string(d, k).ok}
    IN IF inside = Keys(t) THEN [changed |-> FALSE, t |-> t]
       ELSE [changed |-> TRUE,
             t |-> [k \in kept \cup added |->
                      IF k \in Keys(t) THEN t[k] ELSE TrackedFile(d, k)]]

\* MarkdownState::rescan_directory: [changed, t].
rescan_directory(t, d, m) ==
  IF m # "dir" THEN [changed |-> FALSE, t |-> t]
  \* scan_markdown_files(..)? returns the error; the caller then returns
  \* like it does for an unchanged file list
  ELSE IF scan_fails(d) THEN [changed |-> FALSE, t |-> t]
  ELSE
    LET current_files == Range(scan_markdown_files(d))
        inside == {p \in current_files : calculate_relative_path(d, p) # Err}
        current_relative_paths == {calculate_relative_path(d, p) : p \in inside}
        \* retain, then insert the new files that can be read
        kept == Keys(t) \cap current_relative_paths
        added == {k \in current_relative_paths \ Keys(t) :
                    \E p \in inside : /\ calculate_relative_path(d, p) = k
                                       /\ read_to_string(d, p).ok}
    IN IF current_relative_paths = Keys(t) THEN [changed |-> FALSE, t |-> t]
       ELSE [changed |-> TRUE,
             t |-> [k \in kept \cup added |->
                      IF k \in Keys(t) THEN t[k]
                      ELSE TrackedFile(d, CHOOSE p \in inside :
                                            calculate_relative_path(d, p) = k)]]

\* detect_file_change with the rename decided by the cardinalities alone.
detect_file_change_by_cardinality(old_files, new_files, old_hashes, new_tracked) ==
  LET added == new_files \ old_files
      removed == old_files \ new_files
  IN IF Cardinality(added) = 1 /\ Cardinality(removed) = 1
     THEN {FileRenamed(o, n) : <<o, n>> \in removed \X added}
     ELSE IF removed # {} THEN {FileRemoved(r) : r \in removed}
     ELSE {Reload}

\* detect_file_change that takes any added file whose digest equals that of a
\* previously tracked file for a rename.
detect_file_change_by_digest(old_files, new_files, old_hashes, new_tracked) ==
  LET added == new_files \ old_files
      removed == old_files \ new_files
      renamed == {FileRenamed(o, n) : <<o, n>> \in
                    {pr \in old_files \X added :
                       old_hashes[pr[1]] = new_tracked[pr[2]].content_hash}}
  IN IF renamed # {} THEN renamed
     ELSE IF removed # {} THEN {FileRemoved(r) : r \in removed}
     ELSE {Reload}

\* detect_file_change followed by send_change_message: the messages the pass
\* may send (HashSet iteration order decides which removed name comes first).
detect_file_change(old_files, new_files, old_hashes, new_tracked) ==
  LET added == new_files \ old_files
      removed == old_files \ new_files
      renamed == {FileRenamed(o, n) : <<o, n>> \in
                    {pr \in removed \X added :
                       /\ Cardinality(added) = 1
                       /\ Cardinality(removed) = 1
                       /\ old_hashes[pr[1]] = new_tracked[pr[2]].content_hash}}
  IN IF renamed # {} THEN renamed
     ELSE IF removed # {} THEN {FileRemoved(r) : r \in removed}
     ELSE {Reload}

\* handle_markdown_file_change that adds a new file without notifying.
handle_markdown_file_change_silent_add(t, d, m, p) ==
  IF ~is_markdown_file(p) THEN [t |-> t, msgs |-> <<>>]
  ELSE LET rel == calculate_relative_path(d, p)
       IN IF rel = Err THEN [t |-> t, msgs |-> <<>>]
          ELSE IF rel \in Keys(t)
               THEN LET r == refresh_file(t, d, rel)
                    IN [t |-> r.t, msgs |-> IF r.ok THEN <<Reload>> ELSE <<>>]
          ELSE IF m = "dir"
               THEN [t |-> add_tracked_file(t, d, p).t, msgs |-> <<>>]
          ELSE [t |-> t, msgs |-> <<>>]

\* handle_markdown_file_change that adds an untracked file in either mode.
handle_markdown_file_change_adding_in_any_mode(t, d, m, p) ==
  IF ~is_markdown_file(p) THEN [t |-> t, msgs |-> <<>>]
  ELSE LET rel == calculate_relative_path(d, p)
       IN IF rel = Err THEN [t |-> t, msgs |-> <<>>]
          ELSE IF rel \in Keys(t)
               THEN LET r == refresh_file(t, d, rel)
                    IN [t |-> r.t, msgs |-> IF r.ok THEN <<Reload>> ELSE <<>>]
          ELSE LET r == add_tracked_file(t, d, p)
               IN [t |-> r.t, msgs |-> IF r.ok THEN <<Reload>> ELSE <<>>]

\* handle_markdown_file_change: [t, msgs].
handle_markdown_file_change(t, d, m, p) ==
  IF ~is_markdown_file(p) THEN [t |-> t, msgs |-> <<>>]
  ELSE LET rel == calculate_relative_path(d, p)
       IN IF rel = Err THEN [t |-> t, msgs |-> <<>>]
          ELSE IF rel \in Keys(t)
               THEN LET r == refresh_file(t, d, rel)
                    IN [t |-> r.t, msgs |-> IF r.ok THEN <<Reload>> ELSE <<>>]
          ELSE IF m = "dir"
               THEN LET r == add_tracked_file(t, d, p)
                    IN [t |-> r.t, msgs |-> IF r.ok THEN <<Reload>> ELSE <<>>]
          ELSE [t |-> t, msgs |-> <<>>]

NotFoundBody == <<"text", "File not found">>

\* serve_file that answers 404 when the refresh fails.
serve_file_strict(t, d, p) ==
  IF ends_with_md(p)
  THEN IF p \notin Keys(t) THEN [status |-> 404, body |-> NotFoundBody, t |-> t]
       ELSE LET r == refresh_file(t, d, p)
            IN IF r.ok THEN [status |-> 200, body |-> r.t[p].html, t |-> r.t]
               ELSE [status |-> 404, body |-> NotFoundBody, t |-> t]
  ELSE [status |-> 404, body |-> NotFoundBody, t |-> t]

\* serve_file for a request path: [status, body, t].
serve_file(t, d, p) ==
  IF ends_with_md(p)
  THEN IF p \notin Keys(t) THEN [status |-> 404, body |-> NotFoundBody, t |-> t]
       ELSE LET r == refresh_file(t, d, p)
            IN [status |-> 200, body |-> r.t[p].html, t |-> r.t]
  ELSE [status |-> 404, body |-> NotFoundBody, t |-> t]

\* ------------------------------------------------------------------ change bus
\* broadcast::channel::<ServerMessage>(16)
BroadcastCapacity == 16

\* The clients that may open a websocket.
Subscribers == {"s1", "s2"}

\* A connection: status is "none" before the upgrade, "open" while both
\* tasks of handle_websocket run, "closing" once recv_task has ended and
\* send_task still holds change_rx, "gone" once send_task has ended.  sent
\* counts the messages broadcast since change_rx was subscribed, pending are
\* those change_rx has not returned yet, got the frames written to the socket,
\* inbox the frames the client sent that recv_task has not read, last the
\* frame recv_task read last.
NoSub == [status |-> "none", sent |-> 0, pending |-> <<>>, lagged |-> FALSE,
          got |-> <<>>, inbox |-> <<>>, last |-> "none"]

ClientFrames == {"Ping", "RequestRefresh", "Other", "Close"}

Pong == [type |-> "Pong"]

Receiving(sub) == sub.status \in {"open", "closing"}

\* change_tx.send as one receiver sees it: the value is queued; when the
\* receiver is a full channel behind, its oldest value is overwritten.
tx_send(sub, msg) ==
  IF ~Receiving(sub) THEN sub
  ELSE LET item == [seq |-> sub.sent + 1, msg |-> msg]
       IN IF Len(sub.pending) < BroadcastCapacity
          THEN [sub EXCEPT !.sent = @ + 1, !.pending = Append(@, item)]
          ELSE [sub EXCEPT !.sent = @ + 1, !.pending = Append(Tail(@), item),
                           !.lagged = TRUE]

\* Broadcast that reaches one receiver only.
Broadcast_to_one(S, msgs) ==
  IF msgs = <<>> \/ \A s \in DOMAIN S : ~Receiving(S[s]) THEN S
  ELSE LET one == CHOOSE s \in DOMAIN S : Receiving(S[s])
       IN [S EXCEPT ![one] = tx_send(@, Head(msgs))]

RECURSIVE Broadcast(_, _)
Broadcast(S, msgs) ==
  IF msgs = <<>> THEN S
  ELSE Broadcast([s \in DOMAIN S |-> tx_send(S[s], Head(msgs))], Tail(msgs))

\* send_task that writes the newest pending message first.
send_task_newest_first(sub) ==
  IF sub.lagged \/ sub.status = "closing"
  THEN [sub EXCEPT !.status = "gone", !.pending = <<>>, !.lagged = FALSE]
  ELSE [sub EXCEPT !.got = Append(@, sub.pending[Len(sub.pending)]),
                   !.pending = SubSeq(@, 1, Len(@) - 1)]

\* One iteration of send_task: change_rx.recv() returns Err(Lagged) to a
\* receiver that was overrun and the loop ends; otherwise the oldest pending
\* message is written to the socket, and the loop ends when that fails.
send_task(sub) ==
  IF sub.lagged \/ sub.status = "closing"
  THEN [sub EXCEPT !.status = "gone", !.pending = <<>>, !.lagged = FALSE]
  ELSE [sub EXCEPT !.got = Append(@, Head(sub.pending)), !.pending = Tail(@)]

\* recv_task that answers a Ping with Pong.
recv_task_pong(sub) ==
  IF Head(sub.inbox) = "Close"
  THEN [sub EXCEPT !.status = "closing", !.inbox = <<>>, !.last = "Close"]
  ELSE IF Head(sub.inbox) = "Ping"
       THEN [sub EXCEPT !.inbox = Tail(@), !.last = "Ping",
                        !.got = Append(@, [seq |-> sub.sent, msg |-> Pong])]
       ELSE [sub EXCEPT !.inbox = Tail(@), !.last = Head(sub.inbox)]

\* One iteration of recv_task: Close ends the task (and handle_websocket
\* returns); Ping, RequestRefresh and every other frame are dropped.
recv_task(sub) ==
  IF Head(sub.inbox) = "Close"
  THEN [sub EXCEPT !.status = "closing", !.inbox = <<>>, !.last = "Close"]
  ELSE [sub EXCEPT !.inbox = Tail(@), !.last = Head(sub.inbox)]

\* ------------------------------------------------------------------ navigation
\* str::split: the pieces of a byte string between the occurrences of sep.
RECURSIVE split(_, _)
split(x, sep) ==
  IF \A i \in DOMAIN x : x[i] # sep THEN <<x>>
  ELSE LET i == CHOOSE i \in DOMAIN x :
                  x[i] = sep /\ \A j \in 1..(i - 1) : x[j] # sep
       IN <<SubSeq(x, 1, i - 1)>> \o split(SubSeq(x, i + 1, Len(x)), sep)

\* file_path.replace('\\', "/")
normalize(x) == [i \in DOMAIN x |-> IF x[i] = 92 THEN 47 ELSE x[i]]

\* The parts of a key in get_file_tree: normalized_path.split('/').
parts(k) == split(normalize(to_string_lossy(k)), 47)

FileNode(k) ==
  [name |-> parts(k)[Len(parts(k))], path |-> parts(k), is_folder |-> FALSE,
   children |-> <<>>]

\* The keys of the BTreeMap folders: every proper prefix of the parts of a
\* key that has more than one part.
folder_paths(t) ==
  UNION {{SubSeq(parts(k), 1, i) : i \in 1..(Len(parts(k)) - 1)} : k \in Keys(t)}

\* The file nodes pushed for the folder fp (for the root when fp is empty):
\* pushed in the order of get_sorted_filenames and then sorted stably by name.
files_in(t, fp) ==
  LET ks == {k \in Keys(t) : SubSeq(parts(k), 1, Len(parts(k)) - 1) = fp}
      NameThenKey ==
        {w \in ks \X ks :
           \/ BytesLess(FileNode(w[1]).name, FileNode(w[2]).name)
           \/ FileNode(w[1]).name = FileNode(w[2]).name /\ KeyLess(w[1], w[2])}
      order == sort(ks, NameThenKey)
  IN [i \in DOMAIN order |-> FileNode(order[i])]

\* The direct subfolders of fp among the folder paths, by name.
subfolders(t, fp) ==
  LET subs_ == {f \in folder_paths(t) :
                  Len(f) = Len(fp) + 1 /\ SubSeq(f, 1, Len(fp)) = fp}
      ByName == {w \in subs_ \X subs_ :
                   BytesLess(w[1][Len(w[1])], w[2][Len(w[2])])}
  IN sort(subs_, ByName)

\* build_folder_nodes: the files of the folder and its direct subfolders;
\* compare_tree_nodes puts the folders first.
RECURSIVE build_folder_nodes(_, _)
build_folder_nodes(t, fp) ==
  LET sf == subfolders(t, fp)
  IN [name |-> fp[Len(fp)], path |-> fp, is_folder |-> TRUE,
      children |-> [i \in DOMAIN sf |-> build_folder_nodes(t, sf[i])]
                   \o files_in(t, fp)]

\* MarkdownState::get_file_tree: the root-level folders, then the root files.
get_file_tree(t) ==
  LET top == subfolders(t, <<>>)
  IN [i \in DOMAIN top |-> build_folder_nodes(t, top[i])] \o files_in(t, <<>>)

\* ------------------------------------------------------------------ events
\* notify events as the event loop sees them.
Create(p) == [kind |-> "Create", mode |-> "-", paths |-> <<p>>]
ModifyData(p) == [kind |-> "ModifyData", mode |-> "-", paths |-> <<p>>]
Remove(p) == [kind |-> "Remove", mode |-> "-", paths |-> <<p>>]
ModifyName(m, ps) == [kind |-> "ModifyName", mode |-> m, paths |-> ps]

\* What the watcher delivers for rename(p, q): the inotify backend reports
\* From, To and Both; a backend without rename tracking reports Any per path.
Backends == {"inotify", "any"}

RenameEvents(b, p, q) ==
  IF b = "inotify"
  THEN <<ModifyName("From", <<p>>), ModifyName("To", <<q>>), ModifyName("Both", <<p, q>>)>>
  ELSE <<ModifyName("Any", <<p>>), ModifyName("Any", <<q>>)>>

\* The renames and the symlink replacement the environment performs.
RenamePairs == {<<PA, PB>>, <<PA, PT>>, <<PT, PA>>, <<PB, PC>>}
SymlinkPaths == {PA}

\* ------------------------------------------------------------------ watcher callback
\* mpsc::channel(100)
EventQueueCapacity == 100

\* The watcher callback on the notify thread: tx.blocking_send(event) for the
\* raw events in turn.  An event that finds the channel full parks the thread
\* in blocking_send, and the events after it wait behind it: [queue, waiting].
RECURSIVE blocking_send(_, _)
blocking_send(q, evs) ==
  IF evs = <<>> \/ Len(q) >= EventQueueCapacity
  THEN [queue |-> q, waiting |-> evs]
  ELSE blocking_send(Append(q, Head(evs)), Tail(evs))

\* ------------------------------------------------------------------ index mutex
\* A task around Arc<Mutex<MarkdownState>>: idle, or inside a critical section
\* ("locked") with the messages the section sends (msgs) and those it has
\* still to send (out).  emitted are the messages sent on change_tx in the
\* order of their sending, completed the messages of the critical sections in
\* the order in which the sections ended.
Tasks == {"loop", "rescan"}
IdleTask == [at |-> "idle", msgs |-> <<>>, out |-> <<>>]
NoGuard == [loop |-> IdleTask, rescan |-> IdleTask,
            emitted |-> <<>>, completed |-> <<>>]

\* A critical section that drops the guard before it sends its messages.
critical_section_send_after_drop(msgs) ==
  [at |-> IF msgs = <<>> THEN "idle" ELSE "released", msgs |-> msgs, out |-> msgs]

\* The rest of a critical section once the index is mutated: the messages go
\* out through guard.change_tx, then the guard leaves scope.
critical_section(msgs) == [at |-> "locked", msgs |-> msgs, out |-> msgs]

\* ------------------------------------------------------------------ initial state
\* The trees the server may be started on (every file written at time 0).
InitTrees == {{PA}, {PA, PB}, {PA, PT}}

TreeDisk(present) == [p \in Paths |-> IF p \in present THEN File("c1", 0) ELSE Absent]

\* lastFs before any filesystem operation.
NoFs == [op |-> "none", src |-> PA, dst |-> PA, srcTracked |-> FALSE,
         dstTracked |-> FALSE, quiet |-> TRUE, fresh |-> FALSE]

\* lastPass where no pass is recorded.
NoPass == [ran |-> FALSE, old |-> {}, before |-> {}, after |-> {}, changed |-> FALSE]

\* main: the files handed to new_router are the scan of the directory in
\* directory mode and the one given file in single-file mode.
GivenFiles(m, d) == IF m = "dir" THEN Range(scan_markdown_files(d)) ELSE {PA}

\* new_router's outcome: not called yet, failed, or the state, the watcher
\* and the event loop exist.
NotStarted == [status |-> "none", files |-> {}]
Failed(files) == [status |-> "failed", files |-> files]
Running(files) == [status |-> "running", files |-> files]

WatcherExists == router.status = "running"

\* main and new_router have run on a readable tree: the state is built and
\* the event loop started.
Started ==
  /\ tracked = MarkdownState_new(disk, GivenFiles(mode, disk)).t
  /\ router = Running(GivenFiles(mode, disk))
  /\ queue = <<>>
  /\ sleeping = 0
  /\ snaps = EmptyBag
  /\ sinceChange = <<>>
  /\ lastFs = NoFs
  /\ rescannedSince = FALSE
  /\ lastPass = NoPass
  /\ subs = [s \in Subscribers |-> NoSub]
  /\ guard = NoGuard
  /\ callback = <<>>

Init ==
  /\ mode \in {"dir", "single"}
  /\ backend \in Backends
  /\ \E present \in InitTrees : disk = TreeDisk(present)
  /\ clock = 0
  /\ Started

\* ------------------------------------------------------------------ filesystem
FsStep(d, evs, rec) ==
  /\ clock < MaxFsOps
  /\ clock' = clock + 1
  /\ disk' = d
  /\ IF WatcherExists
     THEN LET r == blocking_send(queue, callback \o evs)
          IN queue' = r.queue /\ callback' = r.waiting
     ELSE UNCHANGED <<queue, callback>>
  /\ lastFs' = rec
  /\ sinceChange' = <<>>
  /\ rescannedSince' = FALSE
  /\ lastPass' = NoPass
  /\ UNCHANGED <<mode, backend, tracked, sleeping, snaps, router, subs, guard>>

\* What lastFs remembers of an operation: its kind and paths, whether the
\* paths were tracked keys when it happened, whether the event loop and the
\* rescans were idle then (quiet), and whether it put new content at dst.
FsRecord(op, p, q, d) ==
  [op |-> op, src |-> p, dst |-> q,
   srcTracked |-> p \in Keys(tracked), dstTracked |-> q \in Keys(tracked),
   quiet |-> (queue = <<>> /\ sleeping = 0 /\ snaps = EmptyBag),
   fresh |-> (Exists(d, q) /\ (~Exists(disk, q) \/ d[q].content # disk[q].content))]

\* fs::write(p, c): creates the file or replaces its content.
FsWrite(p, c) ==
  /\ disk[p].kind # "link"
  /\ LET d == [disk EXCEPT ![p] = File(c, clock + 1)]
     IN FsStep(d, IF Exists(disk, p) THEN <<ModifyData(p)>> ELSE <<Create(p)>>,
               FsRecord("write", p, p, d))

\* fs::remove_file(p)
FsRemove(p) ==
  /\ Exists(disk, p)
  /\ LET d == [disk EXCEPT ![p] = Absent]
     IN FsStep(d, <<Remove(p)>>, FsRecord("remove", p, p, d))

\* fs::rename(p, q): q is replaced when it exists; the entry keeps its mtime.
FsRename(p, q) ==
  /\ Exists(disk, p)
  /\ LET d == [disk EXCEPT ![q] = disk[p], ![p] = Absent]
     IN FsStep(d, RenameEvents(backend, p, q), FsRecord("rename", p, q, d))

\* p is replaced by a symbolic link to a file outside the root.
FsSymlink(p) ==
  /\ disk[p].kind # "link"
  /\ LET d == [disk EXCEPT ![p] = Link(clock + 1)]
     IN FsStep(d, IF Exists(disk, p) THEN <<Remove(p), Create(p)>> ELSE <<Create(p)>>,
               FsRecord("symlink", p, p, d))

\* ------------------------------------------------------------------ event loop
NoEffect(t) == [t |-> t, msgs |-> <<>>, arm |-> 0]
Changed(r) == [t |-> r.t, msgs |-> r.msgs, arm |-> 0]
\* schedule_delayed_rescan: one more task asleep for RESCAN_DELAY_MS.
schedule_delayed_rescan(t) == [t |-> t, msgs |-> <<>>, arm |-> 1]

\* handle_rename_event that resolves the rename sub-kind at once in either mode.
handle_rename_event_immediate(t, d, m, rmode, paths) ==
  CASE rmode = "Both" -> Changed(handle_markdown_file_change(t, d, m, paths[2]))
    [] rmode = "To" -> Changed(handle_markdown_file_change(t, d, m, paths[1]))
    [] rmode = "Any" ->
         IF ~Exists(d, paths[1]) THEN NoEffect(t)
         ELSE Changed(handle_markdown_file_change(t, d, m, paths[1]))
    [] OTHER -> NoEffect(t)

\* handle_rename_event
handle_rename_event(t, d, m, rmode, paths) ==
  IF m = "dir" THEN schedule_delayed_rescan(t)
  ELSE CASE rmode = "Both" -> Changed(handle_markdown_file_change(t, d, m, paths[2]))
         [] rmode = "To" -> Changed(handle_markdown_file_change(t, d, m, paths[1]))
         [] rmode = "Any" ->
              IF ~Exists(d, paths[1]) THEN NoEffect(t)
              ELSE Changed(handle_markdown_file_change(t, d, m, paths[1]))
         [] OTHER -> NoEffect(t)

\* handle_md_remove that schedules nothing.
handle_md_remove_ignored(t, m) == NoEffect(t)

\* handle_md_remove
handle_md_remove(t, m) ==
  IF m # "dir" THEN NoEffect(t) ELSE schedule_delayed_rescan(t)

\* handle_file_event: [t, msgs, arm].
handle_file_event(t, d, m, e) ==
  IF e.kind = "ModifyName" THEN handle_rename_event(t, d, m, e.mode, e.paths)
  ELSE IF is_markdown_file(e.paths[1])
       THEN IF e.kind \in {"Create", "ModifyData"}
            THEN Changed(handle_markdown_file_change(t, d, m, e.paths[1]))
            ELSE handle_md_remove(t, m)
       ELSE NoEffect(t)

PendingRescans == sleeping + BagCardinality(snaps)

\* One iteration of the event loop spawned by new_router: rx.recv() and
\* handle_file_event.
HandleEvent ==
  /\ WatcherExists
  /\ queue # <<>>
  /\ LET r == handle_file_event(tracked, disk, mode, Head(queue))
     IN /\ r.arm = 1 => PendingRescans < MaxRescans
        /\ tracked' = r.t
        /\ sinceChange' = sinceChange \o r.msgs
        /\ subs' = Broadcast(subs, r.msgs)
        /\ sleeping' = sleeping + r.arm
  /\ queue' = Tail(queue)
  /\ lastPass' = NoPass
  /\ UNCHANGED <<mode, backend, disk, clock, snaps, lastFs, rescannedSince,
                 router>>
  /\ UNCHANGED <<guard, callback>>

\* rescan_and_detect_changes, first critical section: the task wakes up and
\* copies the tracked keys and their hashes, then releases the lock.
Snapshot(t) == [k \in Keys(t) |-> t[k].content_hash]

RescanSnapshot ==
  /\ sleeping > 0
  /\ sleeping' = sleeping - 1
  /\ snaps' = snaps (+) SetToBag({Snapshot(tracked)})
  /\ lastPass' = NoPass
  /\ UNCHANGED <<mode, backend, disk, clock, tracked, queue, sinceChange,
                 lastFs, rescannedSince, router, subs>>
  /\ UNCHANGED <<guard, callback>>

\* rescan_and_detect_changes, second critical section: rescan_directory, and
\* when it reports a change detect_file_change and send_change_message.
RescanWith(old_hashes) ==
  /\ BagIn(old_hashes, snaps)
  /\ snaps' = snaps (-) SetToBag({old_hashes})
  /\ LET r == rescan_directory(tracked, disk, mode)
     IN /\ tracked' = r.t
        /\ IF r.changed
           THEN \E msg \in detect_file_change(DOMAIN old_hashes, Keys(r.t),
                                              old_hashes, r.t) :
                  /\ sinceChange' = Append(sinceChange, msg)
                  /\ subs' = Broadcast(subs, <<msg>>)
           ELSE UNCHANGED <<sinceChange, subs>>
  /\ rescannedSince' = TRUE
  /\ UNCHANGED <<mode, backend, disk, clock, queue, sleeping, lastFs, router>>
  /\ UNCHANGED <<guard, callback>>

RescanApply ==
  \E old_hashes \in BagToSet(snaps) :
    RescanWith(old_hashes) /\ lastPass' = NoPass

\* ------------------------------------------------------------------ requests
\* GET /<p>: serve_file refreshes the tracked entry before rendering it.
ServeFile(p) ==
  /\ WatcherExists
  /\ tracked' = serve_file(tracked, disk, p).t
  /\ lastPass' = NoPass
  /\ UNCHANGED <<mode, backend, disk, clock, queue, sleeping, snaps,
                 sinceChange, lastFs, rescannedSince, router, subs>>
  /\ UNCHANGED <<guard, callback>>

\* ------------------------------------------------------------------ specification
Next ==
  \/ \E p \in Paths, c \in Contents : FsWrite(p, c)
  \/ \E p \in Paths : FsRemove(p)
  \/ \E pr \in RenamePairs : FsRename(pr[1], pr[2])
  \/ \E p \in SymlinkPaths : FsSymlink(p)
  \/ HandleEvent
  \/ RescanSnapshot
  \/ RescanApply
  \/ \E p \in Paths : ServeFile(p)

Spec == Init /\ [][Next]_vars

\* The tokio runtime runs every spawned task that is ready: the event loop
\* and the delayed rescans keep making progress.
\* The liveness claims are about what follows one filesystem change with no
\* other change after it: every tree and backend, one operation left.
LastChangeInit ==
  /\ mode \in {"dir", "single"}
  /\ backend \in Backends
  /\ \E present \in InitTrees : disk = TreeDisk(present)
  /\ clock = MaxFsOps - 1
  /\ Started

FairSpec ==
  /\ LastChangeInit /\ [][Next]_vars
  /\ WF_vars(HandleEvent) /\ WF_vars(RescanSnapshot) /\ WF_vars(RescanApply)

\* A watcher that may miss events: a raw event is lost before the event
\* loop receives it.
DropEvent ==
  /\ \E i \in 1..Len(queue) :
       queue' = SubSeq(queue, 1, i - 1) \o SubSeq(queue, i + 1, Len(queue))
  /\ lastPass' = NoPass
  /\ UNCHANGED <<mode, backend, disk, clock, tracked, sleeping, snaps,
                 sinceChange, lastFs, rescannedSince, router, subs>>
  /\ UNCHANGED <<guard, callback>>

LossyNext == Next \/ DropEvent

LossySpec == Init /\ [][LossyNext]_vars

\* fs::write(p, bytes) with bytes that are not valid UTF-8.
FsWriteBinary(p) ==
  /\ disk[p].kind # "link"
  /\ LET d == [disk EXCEPT ![p] = File(NotUtf8, clock + 1)]
     IN FsStep(d, IF Exists(disk, p) THEN <<ModifyData(p)>> ELSE <<Create(p)>>,
               FsRecord("write", p, p, d))

\* Directory mode on a tree in which files that cannot be read as text appear.
IoInit == Init /\ mode = "dir"

IoNext == Next \/ \E p \in Paths : FsWriteBinary(p)

IoSpec == IoInit /\ [][IoNext]_vars

\* new_router(base_dir, tracked_files, is_directory_mode): the state is built
\* first; when that fails the error is returned before the watcher, the
\* channel and the event loop are created.
NewRouter(files) ==
  /\ router.status = "none"
  /\ LET r == MarkdownState_new(disk, files)
     IN IF r.ok
        THEN tracked' = r.t /\ router' = Running(files)
        ELSE tracked' = tracked /\ router' = Failed(files)
  /\ lastPass' = NoPass
  /\ UNCHANGED <<mode, backend, disk, clock, queue, sleeping, snaps,
                 sinceChange, lastFs, rescannedSince, subs>>
  /\ UNCHANGED <<guard, callback>>

\* The trees new_router may be called on: a.md and b.markdown each absent,
\* readable or not valid UTF-8, a.md possibly a link that leaves the root.
BootTrees ==
  {d \in [Paths -> {Absent, File("c1", 0), File(NotUtf8, 0), Link(0)}] :
     /\ d[PB].kind # "link"
     /\ d[PC] = Absent /\ d[PT] = Absent}

\* Before new_router is called, with one filesystem change left.
BootInit ==
  /\ mode \in {"dir", "single"}
  /\ backend = "inotify"
  /\ disk \in BootTrees
  /\ clock = MaxFsOps - 1
  /\ tracked = <<>>
  /\ router = NotStarted
  /\ queue = <<>>
  /\ sleeping = 0
  /\ snaps = EmptyBag
  /\ sinceChange = <<>>
  /\ lastFs = NoFs
  /\ rescannedSince = FALSE
  /\ lastPass = NoPass
  /\ subs = [s \in Subscribers |-> NoSub]
  /\ guard = NoGuard
  /\ callback = <<>>

BootNext == Next \/ \E files \in SUBSET {PA, PB} : NewRouter(files)

BootSpec == BootInit /\ [][BootNext]_vars


TreeInit ==
  /\ mode = "dir"
  /\ backend = "inotify"
  /\ \E present \in SUBSET TreePaths :
       disk = [p \in TreePaths |-> IF p \in present THEN File("c1", 0) ELSE Absent]
  /\ clock = 0
  /\ Started

TreeNext ==
  \/ \E p \in TreePaths : FsWrite(p, "c2")
  \/ \E p \in TreePaths : FsRemove(p)
  \/ HandleEvent
  \/ RescanSnapshot
  \/ RescanApply
  \/ \E p \in TreePaths : ServeFile(p)

TreeSpec == TreeInit /\ [][TreeNext]_vars

\* The inputs of one reconciliation pass drawn freely: any tree of eligible
\* files, any index, and the snapshot of any earlier index.
EligiblePaths == {p \in Paths : is_markdown_file(p)}

PassTrees ==
  {d \in [Paths -> {Absent} \cup {File(c, 0) : c \in Contents}] :
     \A p \in Paths \ EligiblePaths : d[p] = Absent}

\* The indexes over the trees: every eligible file that is present, tracked.
PassIndexes == {MarkdownState_new(d, Range(scan_markdown_files(d))).t : d \in PassTrees}

PassInit ==
  /\ mode = "dir"
  /\ backend = "inotify"
  /\ clock = 0
  /\ disk \in PassTrees
  /\ tracked \in PassIndexes
  /\ \E old \in PassIndexes : snaps = SetToBag({Snapshot(old)})
  /\ router = Running({})
  /\ queue = <<>>
  /\ sleeping = 0
  /\ sinceChange = <<>>
  /\ lastFs = NoFs
  /\ rescannedSince = FALSE
  /\ lastPass = NoPass
  /\ subs = [s \in Subscribers |-> NoSub]
  /\ guard = NoGuard
  /\ callback = <<>>

\* The pass, with its inputs and its outcome recorded in lastPass.
RescanApplyRecorded ==
  \E old_hashes \in BagToSet(snaps) :
    /\ RescanWith(old_hashes)
    /\ lastPass' = [ran |-> TRUE, old |-> DOMAIN old_hashes,
                    before |-> Keys(tracked), after |-> Keys(tracked'),
                    changed |-> rescan_directory(tracked, disk, mode).changed]

PassSpec == PassInit /\ [][RescanApplyRecorded]_vars

\* One pass over trees in which an eligible file may be unreadable as text
\* and a.md may be a link that leaves the root.
ReconcileTrees ==
  {d \in [Paths -> {Absent, File(NotUtf8, 0), Link(0)}
                     \cup {File(c, 0) : c \in Contents}] :
     /\ \A p \in Paths \ EligiblePaths : d[p] = Absent
     /\ \A p \in Paths \ SymlinkPaths : d[p].kind # "link"}

ReconcileInit ==
  /\ mode = "dir"
  /\ backend = "inotify"
  /\ clock = 0
  /\ disk \in ReconcileTrees
  /\ tracked \in PassIndexes
  /\ \E old \in PassIndexes : snaps = SetToBag({Snapshot(old)})
  /\ router = Running({})
  /\ queue = <<>>
  /\ sleeping = 0
  /\ sinceChange = <<>>
  /\ lastFs = NoFs
  /\ rescannedSince = FALSE
  /\ lastPass = NoPass
  /\ subs = [s \in Subscribers |-> NoSub]
  /\ guard = NoGuard
  /\ callback = <<>>

ReconcileSpec == ReconcileInit /\ [][RescanApplyRecorded]_vars

\* ------------------------------------------------------------------ websocket
\* GET /ws: handle_websocket subscribes to change_tx and spawns its two tasks.
WsConnect(s) ==
  /\ WatcherExists
  /\ subs[s].status = "none"
  /\ subs' = [subs EXCEPT ![s].status = "open"]
  /\ lastPass' = NoPass
  /\ UNCHANGED <<mode, backend, disk, clock, tracked, queue, sleeping, snaps,
                 sinceChange, lastFs, rescannedSince, router>>
  /\ UNCHANGED <<guard, callback>>

\* The client writes a frame to its socket once its last frame was read.
WsClientSend(s, f) ==
  /\ subs[s].status = "open"
  /\ subs[s].inbox = <<>>
  /\ subs' = [subs EXCEPT ![s].inbox = Append(@, f)]
  /\ lastPass' = NoPass
  /\ UNCHANGED <<mode, backend, disk, clock, tracked, queue, sleeping, snaps,
                 sinceChange, lastFs, rescannedSince, router>>
  /\ UNCHANGED <<guard, callback>>

\* recv_task reads the next frame of the client.
WsRecv(s) ==
  /\ subs[s].status = "open"
  /\ subs[s].inbox # <<>>
  /\ subs' = [subs EXCEPT ![s] = recv_task(@)]
  /\ lastPass' = NoPass
  /\ UNCHANGED <<mode, backend, disk, clock, tracked, queue, sleeping, snaps,
                 sinceChange, lastFs, rescannedSince, router>>
  /\ UNCHANGED <<guard, callback>>

\* send_task's change_rx.recv() returns.
WsSend(s) ==
  /\ Receiving(subs[s])
  /\ subs[s].pending # <<>> \/ subs[s].lagged
  /\ subs' = [subs EXCEPT ![s] = send_task(@)]
  /\ lastPass' = NoPass
  /\ UNCHANGED <<mode, backend, disk, clock, tracked, queue, sleeping, snaps,
                 sinceChange, lastFs, rescannedSince, router>>
  /\ UNCHANGED <<guard, callback>>

WsNext ==
  \/ Next
  \/ \E s \in Subscribers : WsConnect(s)
  \/ \E s \in Subscribers, f \in ClientFrames : WsClientSend(s, f)
  \/ \E s \in Subscribers : WsRecv(s)
  \/ \E s \in Subscribers : WsSend(s)

\* The server with websocket clients, started on the tree of a document and
\* a temporary file with the inotify backend, one filesystem change left.
WsInit == LastChangeInit /\ disk = TreeDisk({PA, PT}) /\ backend = "inotify"

WsSpec == WsInit /\ [][WsNext]_vars

\* The liveness claims about connections are about what follows one write
\* to the tree of one file, with clients that connect, receive and close: the
\* runtime keeps running the event loop and every send_task.
WsFairInit == LastChangeInit /\ disk = TreeDisk({PA}) /\ backend = "inotify"

WsFairNext ==
  \/ \E p \in Paths, c \in Contents : FsWrite(p, c)
  \/ HandleEvent
  \/ \E p \in Paths : ServeFile(p)
  \/ \E s \in Subscribers : WsConnect(s)
  \/ \E s \in Subscribers : WsClientSend(s, "Close")
  \/ \E s \in Subscribers : WsRecv(s)
  \/ \E s \in Subscribers : WsSend(s)

WsFairSpec ==
  /\ WsFairInit /\ [][WsFairNext]_vars
  /\ WF_vars(HandleEvent)
  /\ \A s \in Subscribers : WF_vars(WsSend(s))

\* ------------------------------------------------------------------ slow subscriber
\* A connection whose send_task is behind: its socket write has not returned
\* while a burst of Reload messages was broadcast, and change_rx holds one
\* message short of the channel's capacity, or all of it.
Behind(n) ==
  [NoSub EXCEPT !.status = "open", !.sent = n,
                !.pending = [i \in 1..n |-> [seq |-> i, msg |-> Reload]]]

LagInit ==
  /\ mode \in {"dir", "single"}
  /\ backend = "inotify"
  /\ disk = TreeDisk({PA})
  /\ clock = 0
  /\ tracked = MarkdownState_new(disk, GivenFiles(mode, disk)).t
  /\ router = Running(GivenFiles(mode, disk))
  /\ queue = <<>>
  /\ sleeping = 0
  /\ snaps = EmptyBag
  /\ sinceChange = <<>>
  /\ lastFs = NoFs
  /\ rescannedSince = FALSE
  /\ lastPass = NoPass
  /\ \E n \in {BroadcastCapacity - 1, BroadcastCapacity} :
       subs = [s \in Subscribers |-> IF s = "s1" THEN Behind(n) ELSE NoSub]
  /\ guard = NoGuard
  /\ callback = <<>>

LagNext ==
  \/ \E c \in Contents : FsWrite(PA, c)
  \/ HandleEvent
  \/ \E s \in Subscribers : WsConnect(s)
  \/ \E s \in Subscribers : WsSend(s)

LagSpec == LagInit /\ [][LagNext]_vars

\* ------------------------------------------------------------------ unreadable directory
\* The folder a of a/c.MD as an entry of the tree.
DirA == [dir |-> <<"a">>, stem |-> "", ext |-> ""]

\* The root directory itself as an entry of the tree.
Root == [dir |-> <<>>, stem |-> "", ext |-> ""]

\* chmod on the folder: its read permission is taken away or given back.
\* The metadata event it raises is for a path that is no document and no
\* file, which handle_file_event ignores.
FsChmod(p) ==
  /\ disk[p].kind \in {"dir", "unreadable-dir"}
  /\ LET d == [disk EXCEPT ![p] = IF @ = Dir THEN UnreadableDir ELSE Dir]
     IN FsStep(d, <<>>,
               [op |-> "chmod", src |-> p, dst |-> p, srcTracked |-> FALSE,
                dstTracked |-> FALSE,
                quiet |-> (queue = <<>> /\ sleeping = 0 /\ snaps = EmptyBag),
                fresh |-> FALSE])

\* Directory mode on a tree with the folder a, the root and the folder
\* readable at the start.
ScanInit ==
  /\ mode = "dir"
  /\ backend = "inotify"
  /\ \E present \in {{PA}, {PA, PB}, {PA, PC}} :
       disk = [p \in Paths \cup {DirA, Root} |->
                 IF p \in {DirA, Root} THEN Dir ELSE TreeDisk(present)[p]]
  /\ clock = 0
  /\ Started

ScanNext ==
  \/ \E p \in Paths, c \in Contents : FsWrite(p, c)
  \/ \E p \in Paths : FsRemove(p)
  \/ \E p \in {DirA, Root} : FsChmod(p)
  \/ HandleEvent
  \/ RescanSnapshot
  \/ RescanApply
  \/ \E p \in Paths : ServeFile(p)

ScanSpec == ScanInit /\ [][ScanNext]_vars

\* ------------------------------------------------------------------ full event queue
\* blocking_send returns to the parked callback once the event loop has made
\* room in the channel.
CallbackResume ==
  /\ callback # <<>>
  /\ Len(queue) < EventQueueCapacity
  /\ LET r == blocking_send(queue, callback)
     IN queue' = r.queue /\ callback' = r.waiting
  /\ lastPass' = NoPass
  /\ UNCHANGED <<mode, backend, disk, clock, tracked, sleeping, snaps,
                 sinceChange, lastFs, rescannedSince, router, subs, guard>>

\* The event loop is behind: the channel holds the events of a burst of
\* writes to a.tmp, one short of its capacity or all of it.
QueueInit ==
  /\ mode \in {"dir", "single"}
  /\ backend = "inotify"
  /\ disk = TreeDisk({PA, PT})
  /\ clock = 0
  /\ tracked = MarkdownState_new(disk, GivenFiles(mode, disk)).t
  /\ router = Running(GivenFiles(mode, disk))
  /\ \E n \in {EventQueueCapacity - 1, EventQueueCapacity} :
       queue = [i \in 1..n |-> ModifyData(PT)]
  /\ sleeping = 0
  /\ snaps = EmptyBag
  /\ sinceChange = <<>>
  /\ lastFs = NoFs
  /\ rescannedSince = FALSE
  /\ lastPass = NoPass
  /\ subs = [s \in Subscribers |-> NoSub]
  /\ guard = NoGuard
  /\ callback = <<>>

QueueNext ==
  \/ \E p \in {PA, PT}, c \in Contents : FsWrite(p, c)
  \/ CallbackResume
  \/ HandleEvent
  \/ \E p \in Paths : ServeFile(p)

QueueSpec == QueueInit /\ [][QueueNext]_vars

\* ------------------------------------------------------------------ critical sections
\* The critical sections of the event loop and of the delayed rescans taken
\* step by step: state.lock().await returns and the index is mutated, the
\* messages are sent, the guard is dropped.
LockFree == \A k \in Tasks : guard[k].at # "locked"

\* The task enters the rest of its critical section with msgs to send.  A
\* section that is over at once is logged as completed.
Enter(task, msgs) ==
  LET c == critical_section(msgs)
  IN [guard EXCEPT ![task] = c,
                   !.completed = IF c.at = "locked" THEN @ ELSE @ \o msgs]

\* The event loop: rx.recv(), the lock, and the handler's mutation.
LoopLock ==
  /\ WatcherExists
  /\ queue # <<>>
  /\ LockFree
  /\ guard.loop.at = "idle"
  /\ LET r == handle_file_event(tracked, disk, mode, Head(queue))
     IN /\ r.arm = 1 => PendingRescans < MaxRescans
        /\ tracked' = r.t
        /\ sleeping' = sleeping + r.arm
        /\ guard' = Enter("loop", r.msgs)
  /\ queue' = Tail(queue)
  /\ lastPass' = NoPass
  /\ UNCHANGED <<mode, backend, disk, clock, snaps, sinceChange, lastFs,
                 rescannedSince, router, subs, callback>>

\* rescan_and_detect_changes, second lock: rescan_directory and
\* detect_file_change.
RescanLock ==
  \E old_hashes \in BagToSet(snaps) :
    /\ LockFree
    /\ guard.rescan.at = "idle"
    /\ snaps' = snaps (-) SetToBag({old_hashes})
    /\ LET r == rescan_directory(tracked, disk, mode)
       IN /\ tracked' = r.t
          /\ IF r.changed
             THEN \E msg \in detect_file_change(DOMAIN old_hashes, Keys(r.t),
                                                old_hashes, r.t) :
                    guard' = Enter("rescan", <<msg>>)
             ELSE guard' = Enter("rescan", <<>>)
    /\ rescannedSince' = TRUE
    /\ lastPass' = NoPass
    /\ UNCHANGED <<mode, backend, disk, clock, queue, sleeping, sinceChange,
                   lastFs, router, subs, callback>>

\* change_tx.send(message) by the task.
Emit(task) ==
  /\ guard[task].out # <<>>
  /\ LET msg == Head(guard[task].out)
     IN /\ sinceChange' = Append(sinceChange, msg)
        /\ subs' = Broadcast(subs, <<msg>>)
        /\ guard' = [guard EXCEPT
                       ![task].out = Tail(@),
                       ![task].at = IF @ = "released" /\ Len(guard[task].out) = 1
                                    THEN "idle" ELSE @,
                       !.emitted = Append(@, msg)]
  /\ lastPass' = NoPass
  /\ UNCHANGED <<mode, backend, disk, clock, tracked, queue, sleeping, snaps,
                 lastFs, rescannedSince, router, callback>>

\* The guard leaves scope at the end of the handler.
Unlock(task) ==
  /\ guard[task].at = "locked"
  /\ guard[task].out = <<>>
  /\ guard' = [guard EXCEPT ![task] = IdleTask,
                            !.completed = @ \o guard[task].msgs]
  /\ lastPass' = NoPass
  /\ UNCHANGED <<mode, backend, disk, clock, tracked, queue, sleeping, snaps,
                 sinceChange, lastFs, rescannedSince, router, subs, callback>>

\* Directory mode with the critical sections interleaved with the
\* filesystem's changes; a request and a rescan's first lock wait for the
\* mutex too.
LockInit == Init /\ mode = "dir" /\ backend = "inotify"

LockNext ==
  \/ \E p \in Paths, c \in Contents : FsWrite(p, c)
  \/ \E p \in Paths : FsRemove(p)
  \/ LoopLock
  \/ LockFree /\ RescanSnapshot
  \/ RescanLock
  \/ \E task \in Tasks : Emit(task)
  \/ \E task \in Tasks : Unlock(task)
  \/ \E p \in Paths : LockFree /\ ServeFile(p)

LockSpec == LockInit /\ [][LockNext]_vars

\* ------------------------------------------------------------------ lock requests
\* The tasks that call state.lock().await: the event loop, a delayed rescan,
\* a request handler and the websocket setup.  Under MutexSpec guard holds
\* each task's position (idle, waiting in lock().await, or locked: running
\* its critical section), the section the event loop and the rescan are at,
\* the waiters of the mutex in the order of their requests (tokio's Mutex
\* grants first come, first served) and the task that holds the guard.
MutexTasks == {"loop", "rescan", "request", "ws"}

NoHolder == "none"

MutexIdle ==
  [at |-> [k \in MutexTasks |-> "idle"], stage |-> "handler",
   rstage |-> "snapshot", waiters |-> <<>>, holder |-> NoHolder]

\* The guard of `state.lock().await.is_directory_mode` bound to a variable
\* that lives until the function returns: the task still holds it afterwards.
mode_check_holder_bound(task) == task

\* `state.lock().await.is_directory_mode` in handle_rename_event and
\* handle_md_remove: the guard is a temporary dropped at the end of the
\* statement, and nobody holds the mutex afterwards.
mode_check_holder(task) == NoHolder

\* Whether handle_file_event locks at all for the event, and whether its
\* first lock is the one that reads is_directory_mode.
ReadsMode(e) ==
  \/ e.kind = "ModifyName"
  \/ e.kind = "Remove" /\ is_markdown_file(e.paths[1])
Locks(e) == ReadsMode(e) \/ is_markdown_file(e.paths[1])

\* After the mode was read outside directory mode: whether a rename event
\* goes on to handle_markdown_file_change and its lock.
HandlerFollows(d, m, e) ==
  /\ m # "dir"
  /\ e.kind = "ModifyName"
  /\ \/ e.mode = "Both" /\ is_markdown_file(e.paths[2])
     \/ e.mode = "To" /\ is_markdown_file(e.paths[1])
     \/ e.mode = "Any" /\ Exists(d, e.paths[1]) /\ is_markdown_file(e.paths[1])

\* The event loop takes an event that needs no lock.
MxSkip ==
  /\ WatcherExists /\ queue # <<>>
  /\ guard.at["loop"] = "idle"
  /\ ~Locks(Head(queue))
  /\ queue' = Tail(queue)
  /\ lastPass' = NoPass
  /\ UNCHANGED <<mode, backend, disk, clock, tracked, sleeping, snaps,
                 sinceChange, lastFs, rescannedSince, router, subs, guard,
                 callback>>

Waits(k) == [guard EXCEPT !.at[k] = "waiting", !.waiters = Append(@, k)]

\* A task reaches state.lock().await.
MxRequest(k) ==
  /\ WatcherExists
  /\ guard.at[k] = "idle"
  /\ CASE k = "loop" ->
            /\ queue # <<>> /\ Locks(Head(queue))
            /\ (mode = "dir" /\ ReadsMode(Head(queue))) => PendingRescans < MaxRescans
            /\ guard' = [Waits(k) EXCEPT
                           !.stage = IF ReadsMode(Head(queue)) THEN "mode" ELSE "handler"]
       [] k = "rescan" ->
            \E st \in {"snapshot", "apply"} :
              /\ st = "snapshot" => sleeping > 0
              /\ st = "apply" => snaps # EmptyBag
              /\ guard' = [Waits(k) EXCEPT !.rstage = st]
       [] k = "request" -> guard' = Waits(k)
       [] k = "ws" ->
            /\ \E s \in Subscribers : subs[s].status = "none"
            /\ guard' = Waits(k)
  /\ lastPass' = NoPass
  /\ UNCHANGED <<mode, backend, disk, clock, tracked, queue, sleeping, snaps,
                 sinceChange, lastFs, rescannedSince, router, subs, callback>>

\* The mutex is free and its first waiter gets the guard.
MxGrant ==
  /\ guard.holder = NoHolder
  /\ guard.waiters # <<>>
  /\ guard' = [guard EXCEPT !.holder = Head(guard.waiters),
                            !.at[Head(guard.waiters)] = "locked",
                            !.waiters = Tail(@)]
  /\ lastPass' = NoPass
  /\ UNCHANGED <<mode, backend, disk, clock, tracked, queue, sleeping, snaps,
                 sinceChange, lastFs, rescannedSince, router, subs, callback>>

Released(k) == [guard EXCEPT !.at[k] = "idle", !.holder = NoHolder]

\* The event loop inside a critical section: the read of is_directory_mode,
\* after which the handler's own lock may follow, or the handler.
MxLoop ==
  /\ guard.at["loop"] = "locked"
  /\ LET e == Head(queue)
     IN IF guard.stage = "mode" /\ HandlerFollows(disk, mode, e)
        THEN /\ guard' = [guard EXCEPT !.holder = mode_check_holder("loop"),
                                       !.at["loop"] = "waiting",
                                       !.stage = "handler",
                                       !.waiters = Append(@, "loop")]
             /\ UNCHANGED <<tracked, queue, sleeping, sinceChange, subs>>
        ELSE LET r == handle_file_event(tracked, disk, mode, e)
             IN /\ tracked' = r.t
                /\ sinceChange' = sinceChange \o r.msgs
                /\ subs' = Broadcast(subs, r.msgs)
                /\ sleeping' = sleeping + r.arm
                /\ queue' = Tail(queue)
                /\ guard' = Released("loop")
  /\ lastPass' = NoPass
  /\ UNCHANGED <<mode, backend, disk, clock, snaps, lastFs, rescannedSince,
                 router, callback>>

\* A delayed rescan inside its first or its second critical section.
MxRescan ==
  /\ guard.at["rescan"] = "locked"
  /\ IF guard.rstage = "snapshot"
     THEN /\ sleeping' = sleeping - 1
          /\ snaps' = snaps (+) SetToBag({Snapshot(tracked)})
          /\ UNCHANGED <<tracked, sinceChange, subs, rescannedSince>>
     ELSE \E old_hashes \in BagToSet(snaps) :
            /\ snaps' = snaps (-) SetToBag({old_hashes})
            /\ LET r == rescan_directory(tracked, disk, mode)
               IN /\ tracked' = r.t
                  /\ IF r.changed
                     THEN \E msg \in detect_file_change(DOMAIN old_hashes, Keys(r.t),
                                                        old_hashes, r.t) :
                            /\ sinceChange' = Append(sinceChange, msg)
                            /\ subs' = Broadcast(subs, <<msg>>)
                     ELSE UNCHANGED <<sinceChange, subs>>
            /\ rescannedSince' = TRUE
            /\ UNCHANGED sleeping
  /\ guard' = Released("rescan")
  /\ lastPass' = NoPass
  /\ UNCHANGED <<mode, backend, disk, clock, queue, lastFs, router, callback>>

\* serve_file inside its critical section.
MxServe ==
  /\ guard.at["request"] = "locked"
  /\ \E p \in Paths : tracked' = serve_file(tracked, disk, p).t
  /\ guard' = Released("request")
  /\ lastPass' = NoPass
  /\ UNCHANGED <<mode, backend, disk, clock, queue, sleeping, snaps,
                 sinceChange, lastFs, rescannedSince, router, subs, callback>>

\* handle_websocket inside its critical section: change_tx.subscribe().
MxSubscribe ==
  /\ guard.at["ws"] = "locked"
  /\ \E s \in Subscribers :
       /\ subs[s].status = "none"
       /\ subs' = [subs EXCEPT ![s].status = "open"]
  /\ guard' = Released("ws")
  /\ lastPass' = NoPass
  /\ UNCHANGED <<mode, backend, disk, clock, tracked, queue, sleeping, snaps,
                 sinceChange, lastFs, rescannedSince, router, callback>>

MutexInit ==
  /\ mode \in {"dir", "single"}
  /\ backend = "inotify"
  /\ \E present \in InitTrees : disk = TreeDisk(present)
  /\ clock = MaxFsOps - 1
  /\ tracked = MarkdownState_new(disk, GivenFiles(mode, disk)).t
  /\ router = Running(GivenFiles(mode, disk))
  /\ queue = <<>>
  /\ sleeping = 0
  /\ snaps = EmptyBag
  /\ sinceChange = <<>>
  /\ lastFs = NoFs
  /\ rescannedSince = FALSE
  /\ lastPass = NoPass
  /\ subs = [s \in Subscribers |-> NoSub]
  /\ guard = MutexIdle
  /\ callback = <<>>

MutexNext ==
  \/ \E p \in Paths, c \in Contents : FsWrite(p, c)
  \/ \E p \in Paths : FsRemove(p)
  \/ \E pr \in RenamePairs : FsRename(pr[1], pr[2])
  \/ MxSkip
  \/ \E k \in MutexTasks : MxRequest(k)
  \/ MxGrant
  \/ MxLoop
  \/ MxRescan
  \/ MxServe
  \/ MxSubscribe

\* The runtime keeps running every task that is ready, and the mutex hands
\* the guard to its first waiter when it is free.
MutexSpec ==
  /\ MutexInit /\ [][MutexNext]_vars
  /\ WF_vars(MxGrant) /\ WF_vars(MxLoop) /\ WF_vars(MxRescan)
  /\ WF_vars(MxServe) /\ WF_vars(MxSubscribe)

\* ------------------------------------------------------------------ vocabulary
Quiescent == queue = <<>> /\ sleeping = 0 /\ snaps = EmptyBag

\* The eligible document files on disk under the root.
EligibleOnDisk ==
  {p \in Paths : is_markdown_file(p) /\ is_file(disk, p)
                 /\ calculate_relative_path(disk, p) # Err}

\* A step of the event loop, and a step that is the second critical section
\* of a delayed rescan using the snapshot s.
EventLoopStep == queue # <<>> /\ queue' = Tail(queue)
UsedSnapshot(s) == BagIn(s, snaps) /\ snaps' = snaps (-) SetToBag({s})
RescanPass == \E s \in BagToSet(snaps) : UsedSnapshot(s)

\* ------------------------------------------------------------------ C1
\* C1: in directory mode, renaming a tracked file o to a new eligible name n
\* without changing its content (the event loop and the rescans being idle
\* when it is renamed) makes the first message broadcast after the rename
\* FileRenamed{o, n}.
C1_RenameBroadcastsFileRenamed ==
  \A o, n \in Paths :
    ( /\ mode = "dir"
      /\ lastFs.op = "rename" /\ lastFs.src = o /\ lastFs.dst = n
      /\ lastFs.srcTracked /\ ~lastFs.dstTracked /\ lastFs.quiet
      /\ is_markdown_file(n)
      /\ sinceChange # <<>> )
    => sinceChange[1] = FileRenamed(o, n)

\* ------------------------------------------------------------------ C2
\* C2 as stated: a reconciliation pass that removes exactly one tracked key o
\* and adds exactly one new key n broadcasts FileRenamed{o, n}, whatever the
\* contents.
C2_OneRemovedOneAddedIsRename ==
  [][\A o, n \in Paths :
       ( /\ RescanPass
         /\ Keys(tracked) \ Keys(tracked') = {o}
         /\ Keys(tracked') \ Keys(tracked) = {n} )
       => sinceChange' = Append(sinceChange, FileRenamed(o, n))]_vars

\* C2 as amended: a pass that reports a change and, against the keys it
\* snapshotted, has exactly one key o removed and exactly one key n added
\* broadcasts FileRenamed{o, n} when the snapshotted digest of o equals the
\* stored digest of n, and FileRemoved{o} otherwise.
C2_RenameOnlyOnEqualDigest ==
  [][\A s \in BagToSet(snaps) : \A o, n \in Paths :
       ( /\ UsedSnapshot(s)
         /\ Keys(tracked') # Keys(tracked)
         /\ (DOMAIN s) \ Keys(tracked') = {o}
         /\ Keys(tracked') \ (DOMAIN s) = {n} )
       => sinceChange' =
            Append(sinceChange,
                   IF s[o] = tracked'[n].content_hash
                   THEN FileRenamed(o, n) ELSE FileRemoved(o))]_vars

\* A pass has just replaced o by an n of different content and said FileRemoved:
\* n is tracked while its create event is still queued.
C2_Witness ==
  \E o, n \in Paths :
    /\ mode = "dir" /\ rescannedSince /\ o # n
    /\ sinceChange = <<FileRemoved(o)>>
    /\ o \notin Keys(tracked) /\ n \in Keys(tracked)
    /\ Create(n) \in Range(queue)

\* ------------------------------------------------------------------ C3
\* The index still holds k, which is gone from disk, and does not hold n, a
\* new eligible file of different content whose create event is queued;
\* nothing was broadcast since n was written.
RemovedAndCreated(k, n) ==
  /\ mode = "dir"
  /\ lastFs.op = "write" /\ lastFs.dst = n /\ ~lastFs.dstTracked
  /\ Create(n) \in Range(queue)
  /\ k \in Keys(tracked) /\ ~Exists(disk, k)
  /\ n \notin Keys(tracked) /\ disk[n].kind = "file" /\ is_markdown_file(n)
  /\ markdown_to_html(disk[n].content) # tracked[k].html
  /\ Keys(tracked) \ {k} = EligibleOnDisk \ {n}
  /\ sinceChange = <<>>

RenamedToBackup(p) ==
  /\ lastFs.op = "rename" /\ lastFs.src = p /\ lastFs.srcTracked
  /\ ~is_markdown_file(lastFs.dst)
RewrittenInPlace(p) ==
  lastFs.op = "write" /\ lastFs.dst = p /\ lastFs.dstTracked
RenamedOver(p) ==
  /\ lastFs.op = "rename" /\ lastFs.dst = p /\ lastFs.dstTracked
  /\ disk[p].kind = "file"

ServeStatus(p) == serve_file(tracked, disk, p).status

C5_OneNotificationPerReplace ==
  ( /\ mode = "single"
    /\ lastFs.op = "rename" /\ lastFs.src = PT /\ lastFs.dst = PA
    /\ lastFs.dstTracked /\ lastFs.quiet /\ lastFs.fresh
    /\ queue = <<>> )
  => Len(sinceChange) = 1

\* ------------------------------------------------------------------ C6
\* C6: in directory mode, once everything that followed a rename of a
\* temporary file with new content over a tracked file is processed, a
\* Reload has been broadcast.
C6_ReloadAfterRenameOver ==
  ( /\ mode = "dir"
    /\ lastFs.op = "rename" /\ lastFs.src = PT /\ lastFs.dst = PA
    /\ lastFs.dstTracked /\ lastFs.quiet /\ lastFs.fresh
    /\ Quiescent )
  => Reload \in Range(sinceChange)

\* ------------------------------------------------------------------ C7
\* C7: no response to a request carries the content of a file outside the root.
C7_NoOutsideContentServed ==
  \A p \in Paths : serve_file(tracked, disk, p).body # markdown_to_html(Secret)

\* ------------------------------------------------------------------ C8
\* C8: every entry that an operation adds to the index or refreshes has a
\* location that canonicalizes, at that moment, to the root joined with its key.
C8_TrackedInsideRoot ==
  [][\A k \in Keys(tracked') :
       (k \notin Keys(tracked) \/ tracked'[k] # tracked[k])
       => calculate_relative_path(disk', tracked'[k].path) = k]_vars

\* ------------------------------------------------------------------ C9
\* C9: in directory mode, when every delivered event and every armed rescan
\* has been processed, the tracked keys are the eligible files on disk.
C9_ConvergesWhenIdle ==
  (mode = "dir" /\ Quiescent) => Keys(tracked) = EligibleOnDisk

\* ------------------------------------------------------------------ C10
\* A tracked file p was deleted while the event loop and the rescans were idle.
DeletedAlone(p) ==
  /\ mode = "dir"
  /\ lastFs.op = "remove" /\ lastFs.src = p /\ lastFs.srcTracked /\ lastFs.quiet

RemovalReported(p) ==
  /\ p \notin Keys(tracked)
  /\ ServeStatus(p) = 404
  /\ sinceChange = <<FileRemoved(p)>>

\* C10: after such a deletion the event loop and the rescans eventually come
\* to rest (or the filesystem changes again), and when they are at rest the
\* key is gone, a request for it returns 404 and exactly FileRemoved{p} was
\* broadcast.
C10_RemoveReported ==
  /\ [](\A p \in Paths : (DeletedAlone(p) /\ Quiescent) => RemovalReported(p))
  /\ (\E p \in Paths : DeletedAlone(p) /\ ~Quiescent)
       ~> ~(\E p \in Paths : DeletedAlone(p) /\ ~Quiescent)

C10_Witness ==
  \E p \in Paths : DeletedAlone(p) /\ Quiescent /\ RemovalReported(p)

\* ------------------------------------------------------------------ C11
\* A new eligible file n was created in directory mode while the event loop
\* and the rescans were idle.
CreatedAlone(n) ==
  /\ mode = "dir"
  /\ lastFs.op = "write" /\ lastFs.dst = n /\ ~lastFs.dstTracked
  /\ lastFs.quiet /\ lastFs.fresh
  /\ is_markdown_file(n)

\* C11: in directory mode, once the events that followed the creation of a new
\* eligible file are processed, its relative path is a tracked key, a request
\* for it returns 200, and a Reload was broadcast.
C11_CreatedFileTrackedAndServed ==
  \A n \in Paths :
    (CreatedAlone(n) /\ Quiescent)
    => /\ n \in Keys(tracked)
       /\ ServeStatus(n) = 200
       /\ Reload \in Range(sinceChange)

\* ------------------------------------------------------------------ C12
\* The newest message queued for a connection.
Newest(sub) == sub.pending[Len(sub.pending)]

\* A modify event waits in the queue, or a message waits for an open connection.
Undelivered ==
  \/ \E p \in Paths : ModifyData(p) \in Range(queue)
  \/ \E s \in Subscribers : subs[s].status = "open" /\ subs[s].pending # <<>>

\* C12: in either mode, when the event loop handles the modify event of a
\* tracked file that is still on disk, Reload is broadcast: it is queued, as
\* its newest message, for every connection whose receiver is subscribed at
\* that moment.  A delivered modify event is eventually handled, and what is
\* queued for an open connection is eventually written to its socket (or the
\* connection ends).
C12_ModifyBroadcastsReload ==
  /\ [][\A p \in Paths :
          ( /\ EventLoopStep
            /\ Head(queue) = ModifyData(p)
            /\ p \in Keys(tracked)
            /\ read_to_string(disk, p).ok )
          => /\ sinceChange' = Append(sinceChange, Reload)
             /\ \A s \in Subscribers :
                  Receiving(subs[s])
                  => /\ subs'[s].pending # <<>>
                     /\ Newest(subs'[s]) = [seq |-> subs[s].sent + 1, msg |-> Reload]]_vars
  /\ Undelivered ~> ~Undelivered

\* A tracked file was modified in place and both connections got the Reload.
C12_Witness ==
  \E p \in Paths :
    /\ lastFs.op = "write" /\ lastFs.dst = p /\ lastFs.dstTracked
    /\ queue = <<>> /\ sinceChange = <<Reload>>
    /\ \A s \in Subscribers :
         subs[s].status = "open" /\ subs[s].got = <<[seq |-> 1, msg |-> Reload]>>

\* ------------------------------------------------------------------ C13
\* The regular files under the root whose extension is md or markdown in any
\* letter case, each once, in ascending order of their relative path strings.
EligibleRegularFilesInOrder(d) ==
  LET S == {p \in DOMAIN d : d[p].kind = "file" /\ is_markdown_file(p)}
  IN sort(S, KeyOrder(S))

\* C13: for every tree the scanner returns exactly the regular files with a
\* markdown extension, each once, ordered ascending lexicographically by
\* relative path.
C13_ScanExactAndSorted ==
  scan_markdown_files(disk) = EligibleRegularFilesInOrder(disk)

\* ------------------------------------------------------------------ C14
\* C14: a reconciliation pass that runs after another pass has completed,
\* with no filesystem change in between, leaves the index unchanged and
\* broadcasts no message.
C14_SecondPassChangesNothing ==
  [][(RescanPass /\ rescannedSince)
     => (tracked' = tracked /\ sinceChange' = sinceChange)]_vars

\* ------------------------------------------------------------------ C15
\* C15: what a connection has written to its socket are broadcast messages,
\* each at most once and in the order of their broadcast: the positions of
\* the written messages in the sequence of messages broadcast since the
\* connection subscribed increase strictly, and each written message is the
\* one that was broadcast at that position.
C15_AtMostOnceInOrder ==
  \A s \in Subscribers :
    LET got == subs[s].got
        \* messages broadcast before the connection subscribed
        before == Len(sinceChange) - subs[s].sent
    IN /\ \A i, j \in DOMAIN got : i < j => got[i].seq < got[j].seq
       /\ \A i \in DOMAIN got : got[i].seq \in 1..subs[s].sent
       /\ Receiving(subs[s])
            => \A i \in DOMAIN got : got[i].msg = sinceChange[before + got[i].seq]

\* A connection has received two messages.
C15_Witness ==
  \E s \in Subscribers : subs[s].status = "open" /\ Len(subs[s].got) = 2

FileFails(d, p) ==
  \/ ~Exists(d, p)
  \/ ~read_to_string(d, p).ok
  \/ calculate_relative_path(d, p) = Err

\* C17: when new_router is called with files of which one cannot be stat-ed,
\* read or resolved, it fails and builds no index; and after a failed call
\* there is no index, no watcher queueing events, no event loop or rescan and
\* no connection, whatever happens on disk.
C17_InitAllOrNothing ==
  /\ [][(router.status = "none" /\ router'.status # "none")
         => IF \E p \in router'.files : FileFails(disk, p)
            THEN router'.status = "failed" /\ tracked' = <<>>
            ELSE router'.status = "running"
                 /\ Keys(tracked') = router'.files]_vars
  /\ [](router.status = "failed"
         => /\ tracked = <<>>
            /\ queue = <<>> /\ sleeping = 0 /\ snaps = EmptyBag
            /\ sinceChange = <<>>
            /\ \A s \in Subscribers : subs[s].status = "none")

\* new_router failed on two files of which one was readable, and a later
\* write to the tree was not queued.
C17_Witness ==
  /\ router.status = "failed"
  /\ \E p, q \in router.files : ~FileFails(disk, p) /\ FileFails(disk, q)
  /\ lastFs.op = "write" /\ lastFs.dst = PC
  /\ queue = <<>> /\ tracked = <<>>

\* ------------------------------------------------------------------ C18
\* recv_task of connection s reads a frame.
ReadsFrame(s) ==
  /\ subs[s].status = "open" /\ subs[s].inbox # <<>>
  /\ subs'[s].inbox = Tail(subs[s].inbox)

\* C18: reading a Ping, a RequestRefresh or any other frame of a client
\* leaves the index unchanged, broadcasts nothing and writes nothing to any
\* socket; no connection is ever sent Pong.
C18_ClientMessagesIgnored ==
  /\ [][\A s \in Subscribers :
          ReadsFrame(s)
          => /\ UNCHANGED <<tracked, sinceChange>>
             /\ \A u \in Subscribers :
                  /\ subs'[u].pending = subs[u].pending
                  /\ subs'[u].sent = subs[u].sent
                  /\ subs'[u].got = subs[u].got]_vars
  /\ [](\A s \in Subscribers : \A i \in DOMAIN subs[s].got : subs[s].got[i].msg # Pong)

\* One client's Ping and the other's RequestRefresh were read while a
\* message was broadcast to both.
C18_Witness ==
  /\ subs["s1"].last = "Ping" /\ subs["s2"].last = "RequestRefresh"
  /\ \A s \in Subscribers : subs[s].status = "open" /\ subs[s].sent > 0

\* ------------------------------------------------------------------ C19
\* The folder nodes of a navigation tree, and the number of its file nodes
\* with a given path.
RECURSIVE FoldersIn(_)
FoldersIn(nodes) ==
  UNION {IF n.is_folder THEN {n.path} \cup FoldersIn(n.children) ELSE {} :
           n \in Range(nodes)}

RECURSIVE FileNodesAt(_, _)
FileNodesAt(nodes, pth) ==
  IF nodes = <<>> THEN 0
  ELSE LET n == Head(nodes)
       IN (IF n.is_folder THEN FileNodesAt(n.children, pth)
           ELSE IF n.path = pth THEN 1 ELSE 0)
          + FileNodesAt(Tail(nodes), pth)

\* The folders that hold a tracked file at any depth.
FoldersOfTracked ==
  UNION {{SubSeq(components(k), 1, i) : i \in 1..Len(k.dir)} : k \in Keys(tracked)}

\* C19: in directory mode the navigation tree derived from the index has a
\* folder node exactly for the folders that hold a tracked file at any depth,
\* and one file node for every tracked file, at its relative path.
C19_TreeMatchesIndex ==
  mode = "dir"
  => LET tree == get_file_tree(tracked)
     IN /\ FoldersIn(tree) = FoldersOfTracked
        /\ \A k \in Keys(tracked) : FileNodesAt(tree, components(k)) = 1

\* ------------------------------------------------------------------ C20
\* C20: the key set and digests a reconciliation pass diffs against are
\* those of the index at the moment the pass rescans: nothing mutated the
\* index between the snapshot and the rescan.
C20_SnapshotIsIndexBeforeRescan ==
  [][\A s \in BagToSet(snaps) : UsedSnapshot(s) => s = Snapshot(tracked)]_vars

\* ------------------------------------------------------------------ C21
\* The messages the task that holds the lock has sent in its critical section.
SentInSection(task) ==
  IF guard[task].at = "locked"
  THEN SubSeq(guard[task].msgs, 1, Len(guard[task].msgs) - Len(guard[task].out))
  ELSE <<>>

\* C21: every message is sent by a task that holds the index lock, inside
\* the critical section whose mutation produced it, and the messages sent so
\* far are, in order, those of the critical sections that have ended followed
\* by those of the section in progress.
C21_EmittedInCompletionOrder ==
  /\ [](guard.emitted
          = guard.completed \o SentInSection("loop") \o SentInSection("rescan"))
  /\ [][guard'.emitted # guard.emitted
          => \E task \in Tasks :
               /\ guard[task].at = "locked" /\ guard'[task].at = "locked"
               /\ guard[task].out # <<>>
               /\ guard'.emitted = Append(guard.emitted, Head(guard[task].out))]_vars

\* a.md was removed before b.markdown was created, and the Reload of the
\* creation was sent before the FileRemoved of the delayed rescan.
C21_Witness ==
  /\ lastFs.op = "write" /\ lastFs.dst = PB
  /\ PA \notin Keys(tracked)
  /\ guard.emitted = <<Reload, FileRemoved(PA)>>
  /\ guard.completed = guard.emitted

\* ------------------------------------------------------------------ C22
\* The event at the head of the queue is a rename-class event, or a remove
\* event for a document file.
RenameClassEvent(e) ==
  \/ e.kind = "ModifyName"
  \/ e.kind = "Remove" /\ is_markdown_file(e.paths[1])

\* C22: in directory mode the event loop's handling of a rename-class event
\* or of a remove event for a document file leaves the index as it is,
\* broadcasts nothing and arms one delayed reconciliation.
C22_RenameOnlyArmsRescan ==
  [][(EventLoopStep /\ mode = "dir" /\ RenameClassEvent(Head(queue)))
       => /\ tracked' = tracked
          /\ sinceChange' = sinceChange
          /\ sleeping' = sleeping + 1]_vars

\* A tracked file was renamed away, every event of the rename is handled, no
\* reconciliation has run yet, and the index still holds the old key.
C22_Witness ==
  /\ mode = "dir"
  /\ lastFs.op = "rename" /\ lastFs.srcTracked
  /\ queue = <<>>
  /\ sleeping > 0 /\ ~rescannedSince
  /\ sinceChange = <<>>
  /\ lastFs.src \in Keys(tracked) /\ ~Exists(disk, lastFs.src)

\* ------------------------------------------------------------------ C23
\* C23: at most one delayed reconciliation is armed and not yet fired.
C23_AtMostOneArmed == sleeping <= 1

\* ------------------------------------------------------------------ C24
\* C24: an armed delayed reconciliation leaves the sleeping tasks only by
\* firing, and then it copies the keys and digests of the index as it is at
\* that moment; a fired one ends only by its pass, after which the keys of
\* the index are the eligible files on disk as they are at that moment and
\* the keys that stay keep their entries; and every armed reconciliation
\* eventually fires and ends.
C24_ArmedRescanFiresOnLiveState ==
  /\ [][sleeping' < sleeping
          => /\ sleeping' = sleeping - 1
             /\ snaps' = snaps (+) SetToBag({[k \in Keys(tracked) |->
                                                tracked[k].content_hash]})]_vars
  /\ [][PendingRescans' < PendingRescans
          => /\ RescanPass
             /\ rescannedSince'
             /\ mode = "dir" => Keys(tracked') = EligibleOnDisk
             /\ \A k \in Keys(tracked) \cap Keys(tracked') :
                  tracked'[k] = tracked[k]]_vars
  /\ (PendingRescans > 0) ~> (PendingRescans = 0)

\* A tracked file was renamed, every reconciliation armed by the rename has
\* fired and ended, and the index holds the new key and not the old one.
C24_Witness ==
  /\ mode = "dir"
  /\ lastFs.op = "rename" /\ lastFs.srcTracked
  /\ is_markdown_file(lastFs.dst) /\ lastFs.src # lastFs.dst
  /\ queue = <<>> /\ PendingRescans = 0 /\ rescannedSince
  /\ lastFs.dst \in Keys(tracked) /\ lastFs.src \notin Keys(tracked)

\* ------------------------------------------------------------------ C25
\* C25: the watcher callback never waits in its hand-over: no raw event is
\* held back by a callback parked on the full event queue.
C25_CallbackNeverBlocks == callback = <<>>

\* ------------------------------------------------------------------ C26
\* C26: the stored digest of every tracked file is the digest of the content
\* its cached rendered output was produced from.
C26_DigestMatchesRenderedContent ==
  \A k \in Keys(tracked) :
    \E c \in Contents \cup {Secret} :
      tracked[k].html = markdown_to_html(c) /\ tracked[k].content_hash = Md5(c)

\* ------------------------------------------------------------------ C27
\* C27: in every step, a key that is tracked before and after it has a stored
\* modification time that is not earlier than before.
C27_TimestampNeverDecreases ==
  [][\A k \in Keys(tracked) \cap Keys(tracked') :
       tracked'[k].last_modified >= tracked[k].last_modified]_vars

\* A tracked file was replaced by an older file (a rename over it), the
\* events of the rename are handled, and the stored modification time is
\* still the later one.
C27_Witness ==
  /\ lastFs.op = "rename" /\ lastFs.dstTracked
  /\ queue = <<>> /\ PendingRescans = 0
  /\ lastFs.dst \in Keys(tracked)
  /\ disk[lastFs.dst].kind = "file"
  /\ disk[lastFs.dst].mtime < tracked[lastFs.dst].last_modified

\* ------------------------------------------------------------------ C28
\* The file of the tracked key k is on disk with a modification time that is
\* not later than the stored one.
NotNewer(k) ==
  /\ Exists(disk, tracked[k].path)
  /\ disk[tracked[k].path].mtime <= tracked[k].last_modified

\* C28: for every tracked key of every reachable index and tree, a refresh
\* changes nothing when the on-disk modification time is not later than the
\* stored one, and a second refresh on the same tree leaves the index as the
\* first one left it.
C28_RefreshIdempotent ==
  \A k \in Keys(tracked) :
    LET once == refresh_file(tracked, disk, k).t
        twice == refresh_file(once, disk, k).t
    IN /\ NotNewer(k) => once = tracked
       /\ twice = once

\* After a rename whose events are handled, a tracked key whose file is not
\* newer than the stored time although its content differs from the
\* rendered one: the refreshes made by the handlers left it alone.
C28_Witness ==
  /\ lastFs.op = "rename" /\ queue = <<>>
  /\ \E k \in Keys(tracked) :
       /\ NotNewer(k)
       /\ read_to_string(disk, tracked[k].path).ok
       /\ tracked[k].html # markdown_to_html(disk[tracked[k].path].content)

\* ------------------------------------------------------------------ C29
\* The path a create, modify or rename event is handled for.
EventTarget(e) ==
  IF e.kind = "ModifyName" /\ e.mode = "Both" THEN e.paths[2] ELSE e.paths[1]

\* C29: when the event loop handles a create, modify or rename event whose
\* path is a tracked key with a file that is not newer than the stored time,
\* nothing is broadcast.
C29_NoReloadWithoutReread ==
  [][( /\ EventLoopStep
       /\ Head(queue).kind \in {"Create", "ModifyData", "ModifyName"}
       /\ EventTarget(Head(queue)) \in Keys(tracked)
       /\ NotNewer(EventTarget(Head(queue))) )
       => sinceChange' = sinceChange]_vars

\* ------------------------------------------------------------------ C30
\* C30: a reconciliation pass in directory mode over a readable root,
\* whatever subdirectory cannot be read, leaves the files directly under the
\* root reconciled: such a path is a key afterwards exactly when it is an
\* eligible file on disk.
C30_PassSurvivesUnreadableSubdir ==
  [][(RescanPass /\ mode = "dir" /\ (Root \in DOMAIN disk => disk[Root] = Dir))
       => \A p \in Paths :
            p.dir = <<>> => (p \in Keys(tracked') <=> p \in EligibleOnDisk)]_vars

\* ------------------------------------------------------------------ C31
\* C31: after a reconciliation pass in directory mode that reports changed,
\* no tracked key is absent from the fresh scan, every scanned key whose file
\* can be read is tracked, and every key tracked before the pass and present
\* in the scan keeps its entry (timestamp, digest, cached content).
C31_PassSyncsKeysAndKeepsEntries ==
  [][(mode = "dir" /\ lastPass'.ran /\ lastPass'.changed) =>
       /\ Keys(tracked') \subseteq EligibleOnDisk
       /\ \A k \in EligibleOnDisk : read_to_string(disk, k).ok => k \in Keys(tracked')
       /\ \A k \in Keys(tracked) \cap EligibleOnDisk : tracked'[k] = tracked[k]]_vars

\* A pass reported changed: it removed b.markdown, left the unreadable a/c.MD
\* out, and kept the entry of a.md whose file has other content on disk.
C31_Witness ==
  /\ lastPass.ran /\ lastPass.changed
  /\ PB \in lastPass.before /\ PB \notin Keys(tracked)
  /\ PC \in EligibleOnDisk /\ ~read_to_string(disk, PC).ok /\ PC \notin Keys(tracked)
  /\ PA \in lastPass.before /\ PA \in Keys(tracked)
  /\ tracked[PA].html # markdown_to_html(disk[PA].content)

\* ------------------------------------------------------------------ C32
\* The messages a step broadcasts on change_tx.
SentInStep == SubSeq(sinceChange', Len(sinceChange) + 1, Len(sinceChange'))

\* C32: a reconciliation pass that removes at least one key from the index
\* and is not classified as a rename broadcasts exactly one message, a
\* FileRemoved whose name is one of the keys that pass removed; a pass
\* classified as a rename broadcasts its FileRenamed and no FileRemoved.
C32_RemovalReportedUnlessRename ==
  [][(RescanPass /\ mode = "dir") =>
       LET removed == Keys(tracked) \ Keys(tracked')
           renames == {i \in DOMAIN SentInStep : SentInStep[i].type = "FileRenamed"}
       IN /\ (removed # {} /\ renames = {}) =>
               \E k \in removed : SentInStep = <<FileRemoved(k)>>
          /\ renames # {} => Len(SentInStep) = 1]_vars

\* ------------------------------------------------------------------ C33
\* The step handles a create event for the path p.
HandlesCreate(p) ==
  EventLoopStep /\ Head(queue).kind = "Create" /\ Head(queue).paths[1] = p

\* C33: add_tracked_file on a path whose relative key is tracked returns Ok
\* and leaves the index as it is; and whenever a create event for a tracked
\* key is handled, or a reconciliation pass runs, a key that stays tracked
\* keeps its path and digest, and keeps its whole entry unless the event
\* finds the file newer on disk and refreshes it.
C33_AddIfAbsentKeepsEntry ==
  /\ [](\A p \in Paths :
          calculate_relative_path(disk, p) \in Keys(tracked) =>
            add_tracked_file(tracked, disk, p) = [ok |-> TRUE, t |-> tracked])
  /\ [][\A k \in Keys(tracked) :
          (HandlesCreate(k) \/ RescanPass) =>
            /\ HandlesCreate(k) => k \in Keys(tracked')
            /\ k \in Keys(tracked') =>
                 /\ tracked'[k].path = tracked[k].path
                 /\ tracked'[k].content_hash = tracked[k].content_hash
                 /\ \/ tracked'[k] = tracked[k]
                    \/ /\ HandlesCreate(k)
                       /\ Exists(disk, k)
                       /\ disk[k].mtime > tracked[k].last_modified]_vars

\* b.markdown was created; a reconciliation added it before its create event
\* was handled, and the event then found the key tracked.
C33_Witness ==
  /\ mode = "dir"
  /\ lastFs.op = "write" /\ lastFs.dst = PB /\ ~lastFs.dstTracked
  /\ rescannedSince
  /\ Quiescent
  /\ PB \in Keys(tracked) /\ tracked[PB] = TrackedFile(disk, PB)
  /\ Len(sinceChange) = 2 /\ sinceChange[2] = Reload

\* ------------------------------------------------------------------ C34
\* C34: once a client has disconnected (recv_task has read its Close and
\* handle_websocket has returned), the connection's send_task eventually ends
\* and drops its receiver of change_tx.
C34_DisconnectedSubscriptionDropped ==
  \A s \in Subscribers :
    (subs[s].status = "closing") ~> (subs[s].status = "gone")

\* ------------------------------------------------------------------ C35
\* C35: in single-file mode the tracked keys are at every moment the one
\* file the server was started on, whatever events, requests and filesystem
\* changes happened; a reconciliation would change nothing; and while the
\* file is absent from disk a request for it is answered 200 with the cached
\* rendering and leaves the entry as it is.
C35_SingleFileKeysFixed ==
  mode = "single" =>
    /\ Keys(tracked) = router.files
    /\ rescan_directory(tracked, disk, mode) = [changed |-> FALSE, t |-> tracked]
    /\ \A k \in Keys(tracked) :
         ~Exists(disk, k) =>
           serve_file(tracked, disk, k) =
             [status |-> 200, body |-> tracked[k].html, t |-> tracked]

\* Single-file mode: a.md was deleted while b.markdown is on disk beside it,
\* every event is handled, and a.md is still the one tracked document.
C35_Witness ==
  /\ mode = "single"
  /\ lastFs.op = "remove" /\ lastFs.src = PA
  /\ Exists(disk, PB)
  /\ Quiescent
  /\ Keys(tracked) = {PA}

\* ------------------------------------------------------------------ C36
\* C36: a connection that was overrun (more than 16 messages behind) and
\* whose client has not closed stays subscribed, and goes on receiving: what
\* its send_task takes from change_rx next is the oldest message still
\* queued, which it writes to the socket.
C36_LaggedSubscriberStaysOpen ==
  [][\A s \in Subscribers :
       (subs[s].status = "open" /\ subs[s].lagged) =>
         /\ subs'[s].status = "open"
         /\ Len(subs'[s].got) > Len(subs[s].got) =>
              subs'[s].got = Append(subs[s].got, Head(subs[s].pending))]_vars

\* ------------------------------------------------------------------ C37
\* C37: no task waits for the index lock while it holds it; whoever holds the
\* lock is running its critical section and not waiting; and every task that
\* waits in state.lock().await eventually gets the lock.
C37_NoDeadlockEveryRequestGranted ==
  /\ [](\A k \in MutexTasks :
          /\ guard.at[k] = "waiting" => guard.holder # k
          /\ guard.holder = k => guard.at[k] = "locked")
  /\ \A k \in MutexTasks : (guard.at[k] = "waiting") ~> (guard.at[k] = "locked")

\* A delayed rescan holds the lock for its second critical section while the
\* event loop, a request and a websocket setup wait for it.
C37_Witness ==
  /\ guard.holder = "rescan" /\ guard.rstage = "apply"
  /\ \A k \in {"loop", "request", "ws"} : guard.at[k] = "waiting"

\* ------------------------------------------------------------------ C38
\* C38: a reconciliation pass whose directory scan fails leaves the index
\* exactly as it was and broadcasts nothing.
C38_FailedScanLeavesIndex ==
  [][(RescanPass /\ scan_fails(disk)) =>
       /\ tracked' = tracked
       /\ sinceChange' = sinceChange
       /\ subs' = subs]_vars

\* The root lost its read permission after a tracked file was deleted; the
\* delayed reconciliation has run since, and the deleted file is still
\* tracked and nothing was broadcast.
C38_Witness ==
  /\ Root \in DOMAIN disk /\ disk[Root] = UnreadableDir
  /\ rescannedSince
  /\ Quiescent
  /\ \E k \in Keys(tracked) : ~Exists(disk, k)
  /\ sinceChange = <<>>

\* ------------------------------------------------------------------ C39
\* C39: a request for a tracked path whose file on disk is readable and has
\* a strictly newer modification time than the entry is answered 200 with
\* the rendering of the content on disk, whatever events wait in the queue;
\* a request for a tracked path whose file cannot be read is answered 200
\* with the cached rendering and leaves the index unchanged.
C39_RequestServesNewestReadable ==
  \A k \in Keys(tracked) :
    LET r == serve_file(tracked, disk, k)
    IN /\ ( /\ read_to_string(disk, k).ok
            /\ disk[k].mtime > tracked[k].last_modified )
          => /\ r.status = 200
             /\ r.body = markdown_to_html(disk[k].content)
       /\ ~read_to_string(disk, k).ok
          => r = [status |-> 200, body |-> tracked[k].html, t |-> tracked]
====
